---- MODULE Spec2Model ----
(***************************************************************************)
(* Model of the question-ingestion scripts of the repository:              *)
(*   Projects/project_5.py  bulk extraction of questions from a PDF text   *)
(*                          into the MySQL table Question;                 *)
(*   Projects/project_8.py  interactive authoring of typed questions       *)
(*                          stored into the MySQL table Question_New.      *)
(* Python strings are sequences of one-character strings, so that strip,   *)
(* join, slicing and pattern matching are computed and not assumed.        *)
(***************************************************************************)
EXTENDS Integers, Sequences, FiniteSets, TLC

\* ------------------------------------------------------------------ bounds
\* Longest document text (in characters) read from the PDF.
MaxLen == 4
\* Most questions entered in one interactive session.
MaxQuestions == 2
\* Most answer choices typed for one multiple choice question.
MaxChoices == 3
\* Most rejected inputs (empty lines, invalid menu options) in one session.
MaxRetries == 2

\* ----------------------------------------------------------------- strings
Chars == {"#", "?", "a", " ", "o"}
Whitespace == {" "}
\* None where a value is an opaque string, Absent where it is a text.
None == "<None>"
Absent == <<None>>

\* All strings over cs of length at most n.
StringsUpTo(cs, n) == UNION {[1..k -> cs] : k \in 0..n}

\* str.strip(): drop leading and trailing whitespace.
RECURSIVE LStrip(_)
LStrip(s) ==
  IF s # <<>> /\ Head(s) \in Whitespace THEN LStrip(Tail(s)) ELSE s

RECURSIVE RStrip(_)
RStrip(s) ==
  IF s # <<>> /\ s[Len(s)] \in Whitespace
    THEN RStrip(SubSeq(s, 1, Len(s) - 1))
    ELSE s

Strip(s) == RStrip(LStrip(s))

\* s[i:j] with 0 <= i, j <= len(s).
Slice(s, i, j) == SubSeq(s, i + 1, j)

\* ---------------------------------------------------------------- patterns
\* The patterns a configuration can hold.  A compiled pattern is
\*   lit (?P<g1>[g1]*) (?P<g2>[g2]*)
\* a literal prefix followed by two greedy character-class runs, the named
\* groups of the pattern.
ChapterHash == "#(?P<chapter>[a ]*)"
ChapterStar == "(?P<chapter>#*)"
QuestionMark == "\\?(?P<question>[a ]*)(?P<options>o*)"
BadRegex == "("

ReError == [error |-> "re.error"]
NoMatch == [found |-> FALSE]

\* re.compile(src, flags)
ReCompile(src) ==
  CASE src = ChapterHash -> [lit |-> <<"#">>, g1 |-> {"a", " "}, g2 |-> {}]
    [] src = ChapterStar -> [lit |-> <<>>, g1 |-> {"#"}, g2 |-> {}]
    [] src = QuestionMark -> [lit |-> <<"?">>, g1 |-> {"a", " "}, g2 |-> {"o"}]
    [] src = "" -> [lit |-> <<>>, g1 |-> {}, g2 |-> {}]
    [] OTHER -> ReError

\* Length of the longest run of characters of cs in s from offset p.
RECURSIVE RunLen(_, _, _)
RunLen(s, p, cs) ==
  IF p < Len(s) /\ s[p + 1] \in cs THEN 1 + RunLen(s, p + 1, cs) ELSE 0

\* The match of pat anchored at offset p of s, or NoMatch.
MatchAt(s, pat, p) ==
  LET n == Len(pat.lit)
  IN IF p + n <= Len(s) /\ Slice(s, p, p + n) = pat.lit
       THEN LET r1 == RunLen(s, p + n, pat.g1)
                r2 == RunLen(s, p + n + r1, pat.g2)
            IN [found |-> TRUE, start |-> p, end |-> p + n + r1 + r2,
                g1 |-> Slice(s, p + n, p + n + r1),
                g2 |-> Slice(s, p + n + r1, p + n + r1 + r2)]
       ELSE NoMatch

\* The leftmost match starting at or after pos; with must_advance an empty
\* match at pos itself is not accepted (the scanner's rule after an empty
\* match).
RECURSIVE Scan(_, _, _, _)
Scan(s, pat, pos, must_advance) ==
  IF pos > Len(s) THEN NoMatch
  ELSE LET m == MatchAt(s, pat, pos)
       IN IF m.found /\ ~(must_advance /\ m.end = m.start)
            THEN m
            ELSE Scan(s, pat, pos + 1, FALSE)

\* Pattern.search(s, pos)
Search(s, pat, pos) == Scan(s, pat, pos, FALSE)

\* Pattern.finditer(s): the iterator's state and its next match.
IterStart == [pos |-> 0, must_advance |-> FALSE]
IterNext(s, pat, it) == Scan(s, pat, it.pos, it.must_advance)

\* Faulty variant: the iterator resumes one character after the match.
IterAfterSkip(m) == [pos |-> m.end + 1, must_advance |-> FALSE]

\* The iterator resumes at the end of the match it returned.
IterAfter(m) == [pos |-> m.end, must_advance |-> m.end = m.start]

\* ------------------------------------------------------------------- state
VARIABLES
  script,            \* which script runs: "bulk" (project_5) or "interactive" (project_8)
  pc,                \* position of main()
  config,            \* the parsed config.json
  conn,              \* the MySQL connection: "none", "open" or "closed"
  calls,             \* database calls issued so far, in order, with their outcome
  table,             \* number of rows committed to the question table
  out,               \* the last message printed
  raised,            \* the exception that ended the run, "none" while there is none
  \* project_5.main
  question_pattern, chapter_pattern,
  full_text,
  chap_iter,         \* chapter_pattern.finditer(full_text)
  chapter,           \* chapter_start, chapter_end, chapter_name, chapter_text of the current chapter
  q_iter,            \* question_pattern.finditer(chapter_text)
  segments,          \* the chapters cut so far, in order
  inserts,           \* the arguments of every insert_question call, in order
  stored_count,
  \* project_8.run_interactive_menu
  choice, question_text, subject, chapter_in, choices,
  question,          \* the Question object of the current iteration, or None
  executed,          \* the row of the INSERT executed for that object, or None
  nquestions,        \* menu iterations that chose a question type
  retries,           \* inputs rejected so far
  \* project_4.main
  page_text,         \* text of the page read from the PDF
  pattern,           \* the compiled config["regex"]
  matches,           \* pattern.findall(text)
  formatted_matches,
  output_text,       \* content of output.txt, None while it has not been written
  \* project_7.main
  links,
  futures,           \* state and result of the future submitted for each link
  fetch_calls,       \* number of fetch_url calls started for each link
  finished_order,    \* the futures in the order their fetch completed
  waiter,            \* as_completed: the futures found finished, those finished since
  yield_order,       \* the futures in the order as_completed yielded them
  fetched_contents,
  writes             \* the texts passed to output_path.write_text, in order

dbVars == <<conn, calls, table>>
bulkVars == <<question_pattern, chapter_pattern, full_text, chap_iter, chapter,
              q_iter, segments, inserts, stored_count>>
menuVars == <<choice, question_text, subject, chapter_in, choices, question,
              executed, nquestions, retries>>
extractVars == <<page_text, pattern, matches, formatted_matches, output_text>>
fetchVars == <<links, futures, fetch_calls, finished_order, waiter, yield_order,
               fetched_contents, writes>>
vars == <<script, pc, config, out, raised, dbVars, bulkVars, menuVars,
          extractVars, fetchVars>>

\* ----------------------------------------------------------- configuration
UnknownSubject == <<"U", "n", "k">>
General == <<"G", "e", "n">>
Chemistry == <<"C", "h", "e", "m">>
Acids == <<"A", "c", "i", "d", "s">>

\* Values config.json can hold under each key (None: the key is absent).
RegexValues == {None, "", BadRegex, QuestionMark}
ChapterRegexValues == {None, "", BadRegex, ChapterHash, ChapterStar}
DbValues == {None, "dict"}
SubjectValues == {Absent, Chemistry}
ChapterValues == {Absent, Acids}

Configs ==
  [regex : RegexValues, chapter_regex : ChapterRegexValues, db : DbValues,
   subject_name : SubjectValues, chapter_name : ChapterValues]

\* Each script is run on the configurations that differ in a key it reads.
BulkConfigs == {c \in Configs : c.chapter_name = Absent}
MenuConfigs == {c \in Configs : c.regex = None /\ c.chapter_regex = None}

NoConfig ==
  [regex |-> None, chapter_regex |-> None, db |-> None,
   subject_name |-> Absent, chapter_name |-> Absent]

\* dict.get(key, default) of a text value
Get(value, default) == IF value = Absent THEN default ELSE value

\* Faulty variant: only a missing key counts as no pattern.
FalsyOnlyNone(value) == value = None

\* Python truthiness of a pattern source: None and "" are falsy.
Falsy(value) == value = None \/ value = ""

NoPattern == [error |-> "not compiled"]
NoChapter == [name |-> Absent]
NoQuestion == [class |-> None]
NoRow == [question_type |-> None]

Call(op, ok) == [op |-> op, ok |-> ok]

\* No script has started: nothing is loaded, opened, read or written.
MainIdle ==
  /\ pc = "start"
  /\ config = NoConfig
  /\ conn = "none"
  /\ calls = <<>>
  /\ table = 0
  /\ out = "none"
  /\ raised = "none"
  /\ question_pattern = NoPattern
  /\ chapter_pattern = NoPattern
  /\ full_text = <<>>
  /\ chap_iter = IterStart
  /\ chapter = NoChapter
  /\ q_iter = IterStart
  /\ segments = <<>>
  /\ inserts = <<>>
  /\ stored_count = 0
  /\ choice = <<>>
  /\ question_text = <<>>
  /\ subject = <<>>
  /\ chapter_in = <<>>
  /\ choices = <<>>
  /\ question = NoQuestion
  /\ executed = NoRow
  /\ nquestions = 0
  /\ retries = 0

\* No as_completed iterator exists.
NoWaiter == [installed |-> FALSE, early |-> {}, finished_futures |-> <<>>]

ExtractIdle ==
  /\ page_text = <<>>
  /\ pattern = NoPattern
  /\ matches = <<>>
  /\ formatted_matches = <<>>
  /\ output_text = Absent

FetchIdle ==
  /\ links = <<>>
  /\ futures = <<>>
  /\ fetch_calls = <<>>
  /\ finished_order = <<>>
  /\ waiter = NoWaiter
  /\ yield_order = <<>>
  /\ fetched_contents = <<>>
  /\ writes = <<>>

Init ==
  /\ script \in {"bulk", "interactive"}
  /\ MainIdle /\ ExtractIdle /\ FetchIdle

\* ------------------------------------------------- project_5.py: main()
\* Lines 89-114: the Content folder and config.json are looked up and the
\* configuration is parsed; any failure ends the run.
B_LoadConfig ==
  /\ script = "bulk" /\ pc = "start"
  /\ \E content_ok, config_ok \in BOOLEAN :
       IF content_ok /\ config_ok
         THEN /\ config' \in BulkConfigs
              /\ pc' = "patterns"
              /\ out' = out
         ELSE /\ pc' = "aborted"
              /\ out' = IF content_ok THEN "config error" ELSE "content error"
              /\ config' = config
  /\ UNCHANGED <<script, extractVars, fetchVars, raised, dbVars, bulkVars, menuVars>>

\* Lines 116-128: both patterns must be present, non-empty and compile.
B_CompilePatterns ==
  /\ script = "bulk" /\ pc = "patterns"
  /\ LET regex_pattern == config.regex
         chapter_regex == config.chapter_regex
     IN IF Falsy(regex_pattern) \/ Falsy(chapter_regex)
          THEN /\ pc' = "aborted"
               /\ out' = "patterns missing"
               /\ UNCHANGED <<question_pattern, chapter_pattern>>
          ELSE IF ReCompile(regex_pattern) = ReError
                    \/ ReCompile(chapter_regex) = ReError
                 THEN /\ pc' = "aborted"
                      /\ out' = "invalid regular expression"
                      /\ UNCHANGED <<question_pattern, chapter_pattern>>
                 ELSE /\ question_pattern' = ReCompile(regex_pattern)
                      /\ chapter_pattern' = ReCompile(chapter_regex)
                      /\ pc' = "db_config"
                      /\ out' = out
  /\ UNCHANGED <<script, extractVars, fetchVars,
                 raised, config, dbVars, full_text, chap_iter, chapter, q_iter,
                 segments, inserts, stored_count, menuVars>>

\* Lines 130-133: the db settings must be a dict.
B_CheckDbConfig ==
  /\ script = "bulk" /\ pc = "db_config"
  /\ IF config.db = "dict"
       THEN pc' = "connect" /\ out' = out
       ELSE pc' = "aborted" /\ out' = "db settings invalid"
  /\ UNCHANGED <<script, extractVars, fetchVars, raised, config, dbVars, bulkVars, menuVars>>

\* Lines 135-137 with get_db_connection (25-41): None ends the run.
B_Connect ==
  /\ script = "bulk" /\ pc = "connect"
  /\ \E ok \in BOOLEAN :
       /\ calls' = Append(calls, Call("connect", ok))
       /\ IF ok
            THEN conn' = "open" /\ pc' = "schema" /\ out' = out
            ELSE conn' = conn /\ pc' = "aborted" /\ out' = "database not available"
  /\ UNCHANGED <<script, extractVars, fetchVars, raised, config, table, bulkVars, menuVars>>

\* Lines 139-141 with ensure_question_table (44-64): on failure the
\* connection is closed and the run ends.
B_EnsureSchema ==
  /\ script = "bulk" /\ pc = "schema"
  /\ \E ok \in BOOLEAN :
       /\ IF ok
            THEN /\ calls' = Append(calls, Call("ensure", TRUE))
                 /\ conn' = conn /\ pc' = "pdf" /\ out' = out
            ELSE /\ calls' = calls \o <<Call("ensure", FALSE), Call("close", TRUE)>>
                 /\ conn' = "closed" /\ pc' = "aborted"
                 /\ out' = "table not available"
  /\ UNCHANGED <<script, extractVars, fetchVars, raised, config, table, bulkVars, menuVars>>

\* Faulty variant: a missing PDF ends the run with the connection left open.
B_ReadPdfKeepOpen ==
  /\ script = "bulk" /\ pc = "pdf"
  /\ \E found, opened \in BOOLEAN :
       IF found /\ opened
         THEN /\ full_text' \in StringsUpTo(Chars, MaxLen)
              /\ stored_count' = 0
              /\ chap_iter' = IterStart
              /\ pc' = "chapters"
              /\ out' = "loading"
              /\ UNCHANGED dbVars
         ELSE /\ calls' = IF found THEN Append(calls, Call("close", TRUE)) ELSE calls
              /\ conn' = IF found THEN "closed" ELSE conn
              /\ pc' = "aborted"
              /\ out' = IF found THEN "error opening pdf" ELSE "no pdf"
              /\ UNCHANGED <<table, full_text, stored_count, chap_iter>>
  /\ UNCHANGED <<script, extractVars, fetchVars, raised, config, question_pattern,
                 chapter_pattern, chapter, q_iter, segments, inserts, menuVars>>

\* Lines 143-170: the PDF is located, opened and read; the page texts are
\* joined into full_text.  A missing or unreadable PDF closes the connection.
B_ReadPdf ==
  /\ script = "bulk" /\ pc = "pdf"
  /\ \E found, opened \in BOOLEAN :
       IF found /\ opened
         THEN /\ full_text' \in StringsUpTo(Chars, MaxLen)
              /\ stored_count' = 0
              /\ chap_iter' = IterStart
              /\ pc' = "chapters"
              /\ out' = "loading"
              /\ UNCHANGED dbVars
         ELSE /\ calls' = Append(calls, Call("close", TRUE))
              /\ conn' = "closed"
              /\ pc' = "aborted"
              /\ out' = IF found THEN "error opening pdf" ELSE "no pdf"
              /\ UNCHANGED <<table, full_text, stored_count, chap_iter>>
  /\ UNCHANGED <<script, extractVars, fetchVars,
                 raised, config, question_pattern, chapter_pattern, chapter,
                 q_iter, segments, inserts, menuVars>>

\* Lines 177-178: the chapter ends where the next chapter match found from
\* the end of this one starts, or at the end of the text.
ChapterEnd(text, pat, chap_match) ==
  LET next_chap == Search(text, pat, chap_match.end)
  IN IF next_chap.found THEN next_chap.start ELSE Len(text)

\* Lines 174-180: the chapter cut for one chapter match.
Chapter(text, pat, chap_match) ==
  LET chapter_start == chap_match.start
      chapter_end == ChapterEnd(text, pat, chap_match)
  IN [start |-> chapter_start, end |-> chapter_end,
      name |-> Strip(chap_match.g1),
      text |-> Slice(text, chapter_start, chapter_end)]

\* Lines 183-192: the row passed to insert_question for one question match.
QuestionRow(match, default_subject, chapter_name) ==
  [subject_name |-> default_subject,
   question_text |-> Strip(match.g1),
   answer_options |-> Strip(match.g2),
   chapter_name |-> chapter_name]

\* Line 193: the counter after one insert_question call that returned.
CountAfterInsert(count, ok) == count + 1

\* Faulty variant: a text without any chapter match is taken as one chapter.
B_NextChapterOrWholeText ==
  /\ script = "bulk" /\ pc = "chapters"
  /\ LET chap_match == IterNext(full_text, chapter_pattern, chap_iter)
         whole == [found |-> TRUE, start |-> 0, end |-> Len(full_text),
                   g1 |-> <<>>, g2 |-> <<>>]
         m == IF chap_match.found THEN chap_match ELSE whole
     IN /\ chap_match.found \/ segments = <<>>
        /\ chap_iter' = IF chap_match.found THEN IterAfter(m)
                        ELSE [pos |-> Len(full_text) + 1, must_advance |-> FALSE]
        /\ chapter' = Chapter(full_text, chapter_pattern, m)
        /\ segments' = Append(segments, Chapter(full_text, chapter_pattern, m))
        /\ q_iter' = IterStart
        /\ pc' = "questions"
  /\ UNCHANGED <<script, extractVars, fetchVars,
                 raised, config, out, dbVars, question_pattern, chapter_pattern,
                 full_text, inserts, stored_count, menuVars>>

\* Line 173, one iteration of the chapter loop: the next chapter match is
\* taken and its chapter cut (174-180); the question loop starts on it.
B_NextChapter ==
  /\ script = "bulk" /\ pc = "chapters"
  /\ LET chap_match == IterNext(full_text, chapter_pattern, chap_iter)
     IN /\ chap_match.found
        /\ chap_iter' = IterAfter(chap_match)
        /\ chapter' = Chapter(full_text, chapter_pattern, chap_match)
        /\ segments' = Append(segments, Chapter(full_text, chapter_pattern, chap_match))
        /\ q_iter' = IterStart
        /\ pc' = "questions"
  /\ UNCHANGED <<script, extractVars, fetchVars,
                 raised, config, out, dbVars, question_pattern, chapter_pattern,
                 full_text, inserts, stored_count, menuVars>>

\* Faulty variant: a failed insert closes the connection and ends the run.
B_InsertQuestionOrAbort ==
  /\ script = "bulk" /\ pc = "questions"
  /\ LET match == IterNext(chapter.text, question_pattern, q_iter)
         default_subject == Get(config.subject_name, UnknownSubject)
     IN /\ match.found
        /\ q_iter' = IterAfter(match)
        /\ \E ok \in BOOLEAN :
             /\ inserts' = Append(inserts,
                                  [row |-> QuestionRow(match, default_subject, chapter.name),
                                   ok |-> ok])
             /\ table' = IF ok THEN table + 1 ELSE table
             /\ out' = IF ok THEN out ELSE "error inserting question"
             /\ IF ok
                  THEN /\ calls' = Append(calls, Call("insert", ok))
                       /\ stored_count' = CountAfterInsert(stored_count, ok)
                       /\ UNCHANGED <<pc, conn>>
                  ELSE /\ calls' = calls \o <<Call("insert", ok), Call("close", TRUE)>>
                       /\ pc' = "aborted" /\ conn' = "closed"
                       /\ UNCHANGED stored_count
  /\ UNCHANGED <<script, extractVars, fetchVars, raised, config, question_pattern, chapter_pattern,
                 full_text, chap_iter, chapter, segments, menuVars>>

\* Faulty variant: a match whose question is empty is passed over.
B_InsertQuestionSkipEmpty ==
  /\ script = "bulk" /\ pc = "questions"
  /\ LET match == IterNext(chapter.text, question_pattern, q_iter)
         default_subject == Get(config.subject_name, UnknownSubject)
     IN /\ match.found
        /\ q_iter' = IterAfter(match)
        /\ IF Strip(match.g1) = <<>>
             THEN UNCHANGED <<inserts, calls, table, out, stored_count>>
             ELSE \E ok \in BOOLEAN :
                    /\ inserts' = Append(inserts,
                                         [row |-> QuestionRow(match, default_subject,
                                                              chapter.name),
                                          ok |-> ok])
                    /\ calls' = Append(calls, Call("insert", ok))
                    /\ table' = IF ok THEN table + 1 ELSE table
                    /\ out' = IF ok THEN out ELSE "error inserting question"
                    /\ stored_count' = CountAfterInsert(stored_count, ok)
  /\ UNCHANGED <<script, extractVars, fetchVars,
                 raised, pc, config, conn, question_pattern, chapter_pattern,
                 full_text, chap_iter, chapter, segments, menuVars>>

\* Lines 182-193, one iteration of the question loop: insert_question (67-85)
\* is called for the next question match; a MySQL error is printed inside
\* it and the loop goes on.
B_InsertQuestion ==
  /\ script = "bulk" /\ pc = "questions"
  /\ LET match == IterNext(chapter.text, question_pattern, q_iter)
         default_subject == Get(config.subject_name, UnknownSubject)
     IN /\ match.found
        /\ q_iter' = IterAfter(match)
        /\ \E ok \in BOOLEAN :
             /\ inserts' = Append(inserts,
                                  [row |-> QuestionRow(match, default_subject, chapter.name),
                                   ok |-> ok])
             /\ calls' = Append(calls, Call("insert", ok))
             /\ table' = IF ok THEN table + 1 ELSE table
             /\ out' = IF ok THEN out ELSE "error inserting question"
             /\ stored_count' = CountAfterInsert(stored_count, ok)
  /\ UNCHANGED <<script, extractVars, fetchVars,
                 raised, pc, config, conn, question_pattern, chapter_pattern,
                 full_text, chap_iter, chapter, segments, menuVars>>

\* Line 182: the question loop of this chapter is exhausted.
B_QuestionsDone ==
  /\ script = "bulk" /\ pc = "questions"
  /\ ~IterNext(chapter.text, question_pattern, q_iter).found
  /\ pc' = "chapters"
  /\ UNCHANGED <<script, extractVars, fetchVars, raised, config, out, dbVars, bulkVars, menuVars>>

\* Lines 195-196: the chapter loop is exhausted; the count is printed and
\* the connection closed.
B_Finish ==
  /\ script = "bulk" /\ pc = "chapters"
  /\ ~IterNext(full_text, chapter_pattern, chap_iter).found
  /\ out' = "stored"
  /\ calls' = Append(calls, Call("close", TRUE))
  /\ conn' = "closed"
  /\ pc' = "done"
  /\ UNCHANGED <<script, extractVars, fetchVars, raised, config, table, bulkVars, menuVars>>

\* ------------------------------------------------ project_8.py: questions
Newline == "\n"
TrueFalseText == <<"T", "r", "u", "e", Newline, "F", "a", "l", "s", "e">>

\* sep.join(parts)
RECURSIVE Join(_, _)
Join(parts, sep) ==
  IF parts = <<>> THEN <<>>
  ELSE IF Len(parts) = 1 THEN Head(parts)
  ELSE Head(parts) \o <<sep>> \o Join(Tail(parts), sep)

\* Lines 55-57
SubjectiveQuestion(text, subject_name, chapter_name) ==
  [class |-> "SubjectiveQuestion", question_text |-> text,
   subject_name |-> subject_name, chapter_name |-> chapter_name]

\* Lines 97-99
TrueFalseQuestion(text, subject_name, chapter_name) ==
  [class |-> "TrueFalseQuestion", question_text |-> text,
   subject_name |-> subject_name, chapter_name |-> chapter_name]

\* Lines 139-148: any list of choices is accepted.
MultipleChoiceQuestion(text, cs, subject_name, chapter_name) ==
  [class |-> "MultipleChoiceQuestion", question_text |-> text,
   subject_name |-> subject_name, chapter_name |-> chapter_name,
   choices |-> IF cs # <<>> THEN cs ELSE <<>>]

\* Faulty variant: the tag is worked out from the answer options.
GetQuestionTypeFromContent(q) ==
  IF q.class = "SubjectiveQuestion" THEN "SUBJECTIVE" ELSE "MULTIPLE_CHOICE"

\* get_question_type: lines 59-61, 101-103, 150-152
GetQuestionType(q) ==
  CASE q.class = "SubjectiveQuestion" -> "SUBJECTIVE"
    [] q.class = "TrueFalseQuestion" -> "TRUE_FALSE"
    [] q.class = "MultipleChoiceQuestion" -> "MULTIPLE_CHOICE"

\* Faulty variant: the choices are joined without a separator.
GetAnswerOptionsNoSeparator(q) ==
  CASE q.class = "SubjectiveQuestion" -> <<>>
    [] q.class = "TrueFalseQuestion" -> TrueFalseText
    [] q.class = "MultipleChoiceQuestion" ->
         IF q.choices = <<>> THEN <<>>
         ELSE Head(q.choices) \o Join(Tail(q.choices), " ")

\* get_answer_options: lines 63-65, 105-107, 154-156
GetAnswerOptions(q) ==
  CASE q.class = "SubjectiveQuestion" -> <<>>
    [] q.class = "TrueFalseQuestion" -> TrueFalseText
    [] q.class = "MultipleChoiceQuestion" -> Join(q.choices, Newline)

\* The row store hands to cursor.execute (lines 75-84, 117-126, 166-175).
StoreRow(q) ==
  [question_type |-> GetQuestionType(q),
   question_text |-> q.question_text,
   answer_options |-> GetAnswerOptions(q),
   subject_name |-> q.subject_name,
   chapter_name |-> q.chapter_name]

\* Faulty variant: store lets the MySQL error through.
StoreRaises(q, db_ok) == IF db_ok THEN "True" ELSE "raise MySQLError"

\* store (lines 67-90, 109-132, 158-181): True when the insert and the
\* commit went through, False when a MySQL error was caught.
Store(q, db_ok) == IF db_ok THEN "True" ELSE "False"

\* ------------------------------------------------- project_8.py: main()
\* What the user can type at a prompt.
Lines == {<<>>, <<" ">>, <<"a">>, <<" ", "o">>}
NameLines == {<<>>, <<" ", "o">>}
MenuLines == {<<"1">>, <<"2">>, <<"3">>, <<"4">>, <<" ", "3">>, <<"9">>}

DefaultSubject == Get(config.subject_name, General)
DefaultChapter == Get(config.chapter_name, <<>>)

\* Lines 304-325: config.json is looked up and parsed and its db settings
\* checked; any failure ends the run.
M_LoadConfig ==
  /\ script = "interactive" /\ pc = "start"
  /\ \E config_ok \in BOOLEAN :
       IF config_ok
         THEN \E c \in MenuConfigs :
                /\ config' = c
                /\ IF c.db = "dict"
                     THEN pc' = "connect" /\ out' = out
                     ELSE pc' = "aborted" /\ out' = "db settings invalid"
         ELSE /\ pc' = "aborted"
              /\ out' = "config error"
              /\ config' = config
  /\ UNCHANGED <<script, extractVars, fetchVars, raised, dbVars, bulkVars, menuVars>>

\* Lines 327-329 with get_db_connection (184-200).
M_Connect ==
  /\ script = "interactive" /\ pc = "connect"
  /\ \E ok \in BOOLEAN :
       /\ calls' = Append(calls, Call("connect", ok))
       /\ IF ok
            THEN conn' = "open" /\ pc' = "schema" /\ out' = out
            ELSE conn' = conn /\ pc' = "aborted" /\ out' = "database not available"
  /\ UNCHANGED <<script, extractVars, fetchVars, raised, config, table, bulkVars, menuVars>>

\* Faulty variant: the result of ensure_question_table is not looked at.
M_EnsureSchemaUnchecked ==
  /\ script = "interactive" /\ pc = "schema"
  /\ \E ok \in BOOLEAN :
       /\ calls' = Append(calls, Call("ensure", ok))
       /\ conn' = conn /\ pc' = "menu" /\ out' = "connected"
  /\ UNCHANGED <<script, extractVars, fetchVars, raised, config, table, bulkVars, menuVars>>

\* Lines 331-341 with ensure_question_table (203-225): on failure the
\* connection is closed and the run ends.
M_EnsureSchema ==
  /\ script = "interactive" /\ pc = "schema"
  /\ \E ok \in BOOLEAN :
       /\ IF ok
            THEN /\ calls' = Append(calls, Call("ensure", TRUE))
                 /\ conn' = conn /\ pc' = "menu" /\ out' = "connected"
            ELSE /\ calls' = calls \o <<Call("ensure", FALSE), Call("close", TRUE)>>
                 /\ conn' = "closed" /\ pc' = "aborted"
                 /\ out' = "table not available"
  /\ UNCHANGED <<script, extractVars, fetchVars, raised, config, table, bulkVars, menuVars>>

\* Lines 239-257: the menu is printed and an option read; 4 leaves the
\* loop, anything but 1, 2, 3 starts the loop again.
M_Select ==
  /\ script = "interactive" /\ pc = "menu"
  /\ \E line \in MenuLines :
       LET c == Strip(line)
       IN /\ choice' = c
          /\ IF c = <<"4">>
               THEN /\ pc' = "close" /\ out' = "goodbye"
                    /\ UNCHANGED <<nquestions, retries>>
               ELSE IF c \notin {<<"1">>, <<"2">>, <<"3">>}
                      THEN /\ retries < MaxRetries
                           /\ retries' = retries + 1
                           /\ pc' = "menu" /\ out' = "invalid option"
                           /\ UNCHANGED nquestions
                      ELSE /\ nquestions < MaxQuestions
                           /\ nquestions' = nquestions + 1
                           /\ pc' = "ask_text" /\ out' = "enter the question text"
                           /\ UNCHANGED retries
  /\ UNCHANGED <<script, extractVars, fetchVars,
                 raised, config, dbVars, bulkVars, question_text, subject,
                 chapter_in, choices, question, executed>>

\* Faulty variant: the question text is taken as typed, empty or not.
M_QuestionTextUnchecked ==
  /\ script = "interactive" /\ pc = "ask_text"
  /\ \E line \in Lines :
       /\ question_text' = Strip(line)
       /\ pc' = "ask_subject" /\ out' = "subject name"
  /\ UNCHANGED <<script, extractVars, fetchVars, raised, config, dbVars, bulkVars, choice, subject,
                 chapter_in, choices, question, executed, nquestions, retries>>

\* Line 260 with prompt_non_empty (228-234): one pass of its loop.
M_QuestionText ==
  /\ script = "interactive" /\ pc = "ask_text"
  /\ \E line \in Lines :
       LET value == Strip(line)
       IN IF value # <<>>
            THEN /\ question_text' = value
                 /\ pc' = "ask_subject" /\ out' = "subject name"
                 /\ UNCHANGED retries
            ELSE /\ retries < MaxRetries
                 /\ retries' = retries + 1
                 /\ pc' = "ask_text" /\ out' = "input cannot be empty"
                 /\ UNCHANGED question_text
  /\ UNCHANGED <<script, extractVars, fetchVars, raised, config, dbVars, bulkVars, choice, subject,
                 chapter_in, choices, question, executed, nquestions>>

\* Lines 261-277: subject and chapter are read, an empty answer standing
\* for the default; options 1 and 2 build their question, option 3 goes on
\* to read the choices.
M_SubjectChapter ==
  /\ script = "interactive" /\ pc = "ask_subject"
  /\ \E sline, cline \in NameLines :
       LET s == IF Strip(sline) # <<>> THEN Strip(sline) ELSE DefaultSubject
           c == IF Strip(cline) # <<>> THEN Strip(cline) ELSE DefaultChapter
       IN /\ subject' = s
          /\ chapter_in' = c
          /\ executed' = NoRow
          /\ CASE choice = <<"1">> ->
                    /\ question' = SubjectiveQuestion(question_text, s, c)
                    /\ pc' = "store" /\ out' = "chapter name"
                    /\ UNCHANGED choices
               [] choice = <<"2">> ->
                    /\ question' = TrueFalseQuestion(question_text, s, c)
                    /\ pc' = "store" /\ out' = "chapter name"
                    /\ UNCHANGED choices
               [] choice = <<"3">> ->
                    /\ question' = NoQuestion
                    /\ choices' = <<>>
                    /\ pc' = "choices" /\ out' = "enter answer choices"
  /\ UNCHANGED <<script, extractVars, fetchVars,
                 raised, config, dbVars, bulkVars, choice, question_text,
                 nquestions, retries>>

\* Faulty variant: one choice is enough to end the entry.
EnoughChoicesOne(cs) == ~(Len(cs) < 1)

\* Line 284: an empty line ends the entry only from 2 choices on.
EnoughChoices(cs) == ~(Len(cs) < 2)

\* Lines 281-294, one pass of the choice loop: a non-empty line is appended;
\* an empty line either asks again or ends the loop and builds the question.
M_Choice ==
  /\ script = "interactive" /\ pc = "choices"
  /\ \E line \in Lines :
       LET opt == Strip(line)
       IN IF opt = <<>>
            THEN IF ~EnoughChoices(choices)
                   THEN /\ retries < MaxRetries
                        /\ retries' = retries + 1
                        /\ pc' = "choices" /\ out' = "enter at least 2 choices"
                        /\ UNCHANGED <<choices, question>>
                   ELSE /\ question' = MultipleChoiceQuestion(question_text, choices,
                                                              subject, chapter_in)
                        /\ pc' = "store" /\ out' = "choice"
                        /\ UNCHANGED <<choices, retries>>
            ELSE /\ Len(choices) < MaxChoices
                 /\ choices' = Append(choices, opt)
                 /\ pc' = "choices" /\ out' = "choice"
                 /\ UNCHANGED <<question, retries>>
  /\ UNCHANGED <<script, extractVars, fetchVars,
                 raised, config, dbVars, bulkVars, choice, question_text,
                 subject, chapter_in, executed, nquestions>>

\* Lines 296-299: the question is stored and the result reported; the loop
\* starts again.  An exception leaving store would end the run.  The inputs
\* of the iteration are not read again (each is assigned before its next
\* use), so they are cleared here; the option chosen and the question object
\* stay until lines 249 and 264.
M_Store ==
  /\ script = "interactive" /\ pc = "store"
  /\ \E db_ok \in BOOLEAN :
       LET result == Store(question, db_ok)
       IN /\ calls' = Append(calls, Call("insert", db_ok))
          /\ table' = IF db_ok THEN table + 1 ELSE table
          /\ executed' = StoreRow(question)
          /\ question_text' = <<>> /\ subject' = <<>>
          /\ chapter_in' = <<>> /\ choices' = <<>>
          /\ IF result \in {"True", "False"}
               THEN /\ pc' = "menu"
                    /\ out' = IF result = "True" THEN "stored successfully"
                              ELSE "failed to store"
                    /\ UNCHANGED raised
               ELSE /\ pc' = "crashed"
                    /\ raised' = "MySQLError"
                    /\ UNCHANGED out
  /\ UNCHANGED <<script, extractVars, fetchVars,
                 config, conn, bulkVars, choice, question, nquestions,
                 retries>>

\* Lines 342-347: the menu has returned; the connection is closed.
M_Close ==
  /\ script = "interactive" /\ pc = "close"
  /\ calls' = Append(calls, Call("close", TRUE))
  /\ conn' = "closed"
  /\ pc' = "done"
  /\ UNCHANGED <<script, extractVars, fetchVars, raised, config, out, table, bulkVars, menuVars>>

Interactive ==
  \/ M_LoadConfig
  \/ M_Connect
  \/ M_EnsureSchema
  \/ M_Select
  \/ M_QuestionText
  \/ M_SubjectChapter
  \/ M_Choice
  \/ M_Store
  \/ M_Close

Bulk ==
  \/ B_LoadConfig
  \/ B_CompilePatterns
  \/ B_CheckDbConfig
  \/ B_Connect
  \/ B_EnsureSchema
  \/ B_ReadPdf
  \/ B_NextChapter
  \/ B_InsertQuestion
  \/ B_QuestionsDone
  \/ B_Finish

Next == Bulk \/ Interactive

Spec == Init /\ [][Next]_vars

\* ------------------------------------------------- project_4.py: main()
PageRegexValues == {ChapterHash, ChapterStar, QuestionMark}

\* Pattern.groups
Groups(pat) == IF pat.g2 = {} THEN 1 ELSE 2

\* One item of Pattern.findall: the tuple of all groups when the pattern
\* has several, the group itself when it has one.
FindAllItem(pat, m) ==
  IF Groups(pat) > 1 THEN [tuple |-> TRUE, parts |-> <<m.g1, m.g2>>]
  ELSE [tuple |-> FALSE, parts |-> <<m.g1>>]

\* Pattern.findall(s), scanning from the iterator state it.
RECURSIVE PatternFindAll(_, _, _)
PatternFindAll(s, pat, it) ==
  LET m == IterNext(s, pat, it)
  IN IF m.found
       THEN <<FindAllItem(pat, m)>> \o PatternFindAll(s, pat, IterAfter(m))
       ELSE <<>>

\* bool(part) of a string
Truthy(part) == part # <<>>

StripAll(parts) == [i \in 1..Len(parts) |-> Strip(parts[i])]

\* Faulty variant: the parts are trimmed before the empty ones are dropped.
FormatMatchTrimFirst(m) ==
  IF m.tuple THEN Join(SelectSeq(StripAll(m.parts), Truthy), Newline)
  ELSE Strip(m.parts[1])

\* Lines 122-125: the parts of a tuple that are not empty, each trimmed,
\* one per line; a string trimmed.
FormatMatch(m) ==
  IF m.tuple THEN Join(StripAll(SelectSeq(m.parts, Truthy)), Newline)
  ELSE Strip(m.parts[1])

\* "\n\n".join(parts)
RECURSIVE JoinBlankLine(_)
JoinBlankLine(parts) ==
  IF parts = <<>> THEN <<>>
  ELSE IF Len(parts) = 1 THEN Head(parts)
  ELSE Head(parts) \o <<Newline, Newline>> \o JoinBlankLine(Tail(parts))

\* Lines 28-107: the folders, config.json, the regex, the page number, the
\* PDF and the page are checked and read; any failure ends the run.
E_ReadPage ==
  /\ script = "extract" /\ pc = "start"
  /\ \E ok \in BOOLEAN :
       IF ok
         THEN /\ pattern' \in {ReCompile(src) : src \in PageRegexValues}
              /\ page_text' \in StringsUpTo(Chars, MaxLen)
              /\ pc' = "findall"
              /\ out' = out
         ELSE /\ pc' = "aborted"
              /\ out' = "error"
              /\ UNCHANGED <<pattern, page_text>>
  /\ UNCHANGED <<script, config, raised, dbVars, bulkVars, menuVars, fetchVars,
                 matches, formatted_matches, output_text>>

\* Lines 15-25: write_text_to_output(t) reports a write error, it does not
\* raise.
WriteTextToOutput(t) ==
  \E ok \in BOOLEAN :
    /\ output_text' = IF ok THEN t ELSE output_text
    /\ out' = IF ok THEN "output written" ELSE "write error"

\* Lines 113-119: all matches are collected; without any, an empty
\* output.txt is written and the run ends.
E_FindAll ==
  /\ script = "extract" /\ pc = "findall"
  /\ matches' = PatternFindAll(page_text, pattern, IterStart)
  /\ IF PatternFindAll(page_text, pattern, IterStart) = <<>>
       THEN /\ WriteTextToOutput(<<>>)
            /\ pc' = "done"
       ELSE /\ pc' = "format"
            /\ UNCHANGED <<out, output_text>>
  /\ UNCHANGED <<script, config, raised, dbVars, bulkVars, menuVars, fetchVars,
                 page_text, pattern, formatted_matches>>

\* Lines 121-125: one iteration of the loop over the matches.
E_FormatMatch ==
  /\ script = "extract" /\ pc = "format"
  /\ Len(formatted_matches) < Len(matches)
  /\ formatted_matches' =
       Append(formatted_matches, FormatMatch(matches[Len(formatted_matches) + 1]))
  /\ UNCHANGED <<script, pc, config, out, raised, dbVars, bulkVars, menuVars,
                 fetchVars, page_text, pattern, matches, output_text>>

\* Lines 127-128: the formatted matches are written, a blank line between
\* two of them.
E_Write ==
  /\ script = "extract" /\ pc = "format"
  /\ Len(formatted_matches) = Len(matches)
  /\ WriteTextToOutput(JoinBlankLine(formatted_matches))
  /\ pc' = "done"
  /\ UNCHANGED <<script, config, raised, dbVars, bulkVars, menuVars, fetchVars,
                 page_text, pattern, matches, formatted_matches>>

Extract == E_ReadPage \/ E_FindAll \/ E_FormatMatch \/ E_Write

ExtractInit == script = "extract" /\ MainIdle /\ ExtractIdle /\ FetchIdle

ExtractSpec == ExtractInit /\ [][Extract]_vars

\* ------------------------------------------------- project_7.py: main()
MaxLinks == 3
MaxWorkers == 5

Urls == {"u1", "u2"}
\* What fetch_url returns: the text of the page, "" after any error.
Contents == {"", "page"}

LinkLists == UNION {[1..n -> Urls] : n \in 1..MaxLinks}

Future(state, result) == [state |-> state, result |-> result]

Running == {i \in 1..Len(futures) : futures[i].state = "running"}
Finished == {i \in 1..Len(futures) : futures[i].state = "finished"}
Yielded == {yield_order[k] : k \in 1..Len(yield_order)}

\* Lines 24-64: the RSS file is read and parsed and its non-empty links
\* are collected in document order; without the file, text or links the
\* run ends.
F_ReadRss ==
  /\ script = "fetch" /\ pc = "start"
  /\ \E ok \in BOOLEAN :
       IF ok
         THEN /\ links' \in LinkLists
              /\ pc' = "submit"
              /\ out' = "fetching in parallel"
         ELSE /\ pc' = "aborted"
              /\ out' = "error"
              /\ UNCHANGED links
  /\ UNCHANGED <<script, config, raised, dbVars, bulkVars, menuVars, extractVars,
                 futures, fetch_calls, finished_order, waiter, yield_order,
                 fetched_contents, writes>>

\* Line 69: executor.submit(fetch_url, url) for the next link, in the order
\* of links; after the last one the as_completed loop is entered.
F_Submit ==
  /\ script = "fetch" /\ pc = "submit"
  /\ IF Len(futures) < Len(links)
       THEN /\ futures' = Append(futures, Future("pending", ""))
            /\ fetch_calls' = Append(fetch_calls, 0)
            /\ pc' = pc
       ELSE /\ pc' = "as_completed"
            /\ UNCHANGED <<futures, fetch_calls>>
  /\ UNCHANGED <<script, config, out, raised, dbVars, bulkVars, menuVars,
                 extractVars, links, finished_order, waiter, yield_order,
                 fetched_contents, writes>>

\* A worker thread of the pool (at most max_workers of them, line 68) takes
\* a submitted call and enters fetch_url (line 13).
W_Start(i) ==
  /\ script = "fetch"
  /\ i \in 1..Len(futures)
  /\ futures[i].state = "pending"
  /\ Cardinality(Running) < MaxWorkers
  /\ futures' = [futures EXCEPT ![i] = Future("running", "")]
  /\ fetch_calls' = [fetch_calls EXCEPT ![i] = @ + 1]
  /\ UNCHANGED <<script, pc, config, out, raised, dbVars, bulkVars, menuVars,
                 extractVars, links, finished_order, waiter, yield_order,
                 fetched_contents, writes>>

\* Lines 15-21: fetch_url returns the page text, or "" after any error; the
\* future is finished and a waiting as_completed is told.
W_Finish(i) ==
  /\ script = "fetch"
  /\ i \in 1..Len(futures)
  /\ futures[i].state = "running"
  /\ \E content \in Contents :
       futures' = [futures EXCEPT ![i] = Future("finished", content)]
  /\ finished_order' = Append(finished_order, i)
  /\ waiter' = IF waiter.installed
                 THEN [waiter EXCEPT !.finished_futures = Append(@, i)]
                 ELSE waiter
  /\ UNCHANGED <<script, pc, config, out, raised, dbVars, bulkVars, menuVars,
                 extractVars, links, fetch_calls, yield_order, fetched_contents,
                 writes>>

\* Line 70, entering the loop: as_completed notes the futures that are
\* already finished, which it yields first, and waits for the others.
F_AsCompleted ==
  /\ script = "fetch" /\ pc = "as_completed"
  /\ waiter' = [installed |-> TRUE, early |-> Finished, finished_futures |-> <<>>]
  /\ pc' = "iterate"
  /\ UNCHANGED <<script, config, out, raised, dbVars, bulkVars, menuVars,
                 extractVars, links, futures, fetch_calls, finished_order,
                 yield_order, fetched_contents, writes>>

\* The futures as_completed may yield next: any of those it found finished
\* (it keeps them in a set), then the others in the order they finished.
NextYields ==
  IF waiter.early \ Yielded # {} THEN waiter.early \ Yielded
  ELSE IF waiter.finished_futures # <<>> THEN {Head(waiter.finished_futures)}
  ELSE {}

\* Faulty variant: the result of a future is kept even when it is empty.
AfterYieldKeepEmpty(i) ==
  Append(fetched_contents, [url |-> links[i], content |-> futures[i].result])

\* Lines 71-79: fetched_contents after the future of link i is yielded.
AfterYield(i) ==
  IF futures[i].result # ""
    THEN Append(fetched_contents, [url |-> links[i], content |-> futures[i].result])
    ELSE fetched_contents

\* Lines 70-79: one iteration of the as_completed loop.
F_Yield ==
  /\ script = "fetch" /\ pc = "iterate"
  /\ \E i \in NextYields :
       /\ yield_order' = Append(yield_order, i)
       /\ fetched_contents' = AfterYield(i)
       /\ waiter' = IF i \in waiter.early THEN waiter
                    ELSE [waiter EXCEPT !.finished_futures = Tail(@)]
  /\ UNCHANGED <<script, pc, config, out, raised, dbVars, bulkVars, menuVars,
                 extractVars, links, futures, fetch_calls, finished_order, writes>>

NoContentText == <<"No content could be fetched from any link.">>

\* Lines 84-90: one part per fetched content, in the order of
\* fetched_contents.
OutputText(contents) ==
  IF contents = <<>> THEN NoContentText
  ELSE [k \in 1..Len(contents) |-> <<"URL: ", contents[k].url, contents[k].content>>]

\* Lines 70 and 81-95: every future has been yielded, the pool is shut down
\* and the output is written; a write error is reported.
F_Write ==
  /\ script = "fetch" /\ pc = "iterate"
  /\ Yielded = 1..Len(futures)
  /\ \E ok \in BOOLEAN :
       /\ writes' = Append(writes, [text |-> OutputText(fetched_contents), ok |-> ok])
       /\ out' = IF ok THEN "wrote fetched content" ELSE "error writing"
  /\ pc' = "done"
  /\ UNCHANGED <<script, config, raised, dbVars, bulkVars, menuVars, extractVars,
                 links, futures, fetch_calls, finished_order, waiter, yield_order,
                 fetched_contents>>

Worker == \E i \in 1..MaxLinks : W_Start(i) \/ W_Finish(i)

Fetch == F_ReadRss \/ F_Submit \/ F_AsCompleted \/ F_Yield \/ F_Write \/ Worker

FetchInit == script = "fetch" /\ MainIdle /\ ExtractIdle /\ FetchIdle

FetchSpec == FetchInit /\ [][Fetch]_vars

\* ---------------------------------------------------------------- claims
\* All non-overlapping matches of pat in s, left to right, stated on the
\* positions of s: a non-empty match is followed by the matches from its
\* end, an empty match by the matches from the next position on.
RECURSIVE FindAll(_, _, _, _)
FindAll(s, pat, p, after_empty) ==
  IF p > Len(s) THEN <<>>
  ELSE LET m == MatchAt(s, pat, p)
       IN IF m.found /\ m.end > p
            THEN <<m>> \o FindAll(s, pat, m.end, FALSE)
            ELSE IF m.found /\ ~after_empty
                   THEN <<m>> \o FindAll(s, pat, p, TRUE)
                   ELSE FindAll(s, pat, p + 1, FALSE)

Matches(s, pat) == FindAll(s, pat, 0, FALSE)

IsPrefix(a, b) == Len(a) <= Len(b) /\ a = SubSeq(b, 1, Len(a))

\* The rows the question matches of the chapters segs give, in order.
RECURSIVE ExpectedRows(_)
ExpectedRows(segs) ==
  IF segs = <<>> THEN <<>>
  ELSE LET seg == Head(segs)
           ms == Matches(seg.text, question_pattern)
       IN [i \in 1..Len(ms) |->
             [subject_name |-> Get(config.subject_name, UnknownSubject),
              question_text |-> Strip(ms[i].g1),
              answer_options |-> Strip(ms[i].g2),
              chapter_name |-> seg.name]]
          \o ExpectedRows(Tail(segs))

InsertedRows == [i \in 1..Len(inserts) |-> inserts[i].row]
FailedCount == Cardinality({i \in 1..Len(inserts) : ~inserts[i].ok})
SucceededCount == Cardinality({i \in 1..Len(inserts) : inserts[i].ok})
InsertCalls == {i \in 1..Len(calls) : calls[i].op = "insert"}
InLoop == script = "bulk" /\ pc \in {"chapters", "questions", "done"}

\* C1: in a finished bulk run every extracted record was attempted, also
\* after a failed insert, and the failed inserts plus the reported count of
\* persisted records add up to the number of extracted records.
C1_FailureIsolation ==
  (script = "bulk" /\ pc = "done") =>
     /\ Len(inserts) = Len(ExpectedRows(segments))
     /\ FailedCount + stored_count = Len(ExpectedRows(segments))

\* C2: the count a finished bulk run reports is the number of inserts that
\* succeeded.
C2_ReportedCountIsPersisted ==
  (script = "bulk" /\ pc = "done") =>
     /\ stored_count = SucceededCount
     /\ stored_count = table

\* C3: the chapters cut by a finished bulk run are one per chapter match, in
\* order; chapter i runs from the start of match i to the start of match
\* i+1, the last one to the end of the text.
C3_SegmentsPartition ==
  (script = "bulk" /\ pc = "done") =>
     LET ms == Matches(full_text, chapter_pattern)
         n == Len(ms)
     IN /\ Len(segments) = n
        /\ \A i \in 1..n :
             /\ segments[i].start = ms[i].start
             /\ segments[i].end = IF i < n THEN ms[i + 1].start ELSE Len(full_text)
             /\ segments[i].text = Slice(full_text, segments[i].start, segments[i].end)

\* C5: a bulk run whose question or chapter pattern is missing, empty or
\* does not compile ends before any chapter is cut and before any database
\* call is made.
BadPatternValues == {None, "", BadRegex}

C5_BadPatternAbortsEarly ==
  (/\ script = "bulk" /\ pc # "start"
   /\ (config.regex \in BadPatternValues \/ config.chapter_regex \in BadPatternValues))
  => /\ pc \in {"patterns", "aborted"}
     /\ calls = <<>> /\ conn = "none"
     /\ segments = <<>> /\ inserts = <<>>

C5_Witness ==
  /\ script = "bulk" /\ pc = "aborted"
  /\ out = "invalid regular expression"
  /\ config.db = "dict"
  /\ config.chapter_regex = BadRegex /\ config.regex = QuestionMark

\* C7: the rows handed to insert_question are, in order, the question
\* matches of each chapter text cut so far, chapter after chapter in the
\* order of the chapter matches, each with the name of its chapter and each
\* exactly once.
C7_EachMatchInsertedOnce ==
  InLoop =>
    LET ms == Matches(full_text, chapter_pattern)
        done == IF pc = "questions"
                  THEN SubSeq(segments, 1, Len(segments) - 1)
                  ELSE segments
    IN /\ IsPrefix(InsertedRows, ExpectedRows(segments))
       /\ IsPrefix(ExpectedRows(done), InsertedRows)
       /\ Cardinality(InsertCalls) = Len(inserts)
       /\ Len(segments) <= Len(ms)
       /\ \A i \in 1..Len(segments) :
            /\ segments[i].start = ms[i].start
            /\ segments[i].name = Strip(ms[i].g1)
       /\ pc = "done" => Len(segments) = Len(ms)

C7_Witness ==
  /\ script = "bulk" /\ pc = "done"
  /\ Len(segments) = 2 /\ Len(inserts) = 2
  /\ Len(ExpectedRows(<<segments[1]>>)) = 1
  /\ Len(ExpectedRows(<<segments[2]>>)) = 1
  /\ ~inserts[1].ok /\ inserts[2].ok

\* C8: a bulk run on a text without any chapter match cuts no chapter,
\* issues no insert, and finishes with a stored count of 0.
C8_NoChapterNothingStored ==
  (InLoop /\ Matches(full_text, chapter_pattern) = <<>>)
  => /\ segments = <<>> /\ inserts = <<>> /\ InsertCalls = {}
     /\ stored_count = 0 /\ table = 0
     /\ pc \in {"chapters", "done"}
     /\ pc = "chapters" => ENABLED B_Finish
     /\ pc = "done" => out = "stored" /\ conn = "closed"

C8_Witness ==
  /\ script = "bulk" /\ pc = "done"
  /\ Matches(full_text, chapter_pattern) = <<>>
  /\ Len(Matches(full_text, question_pattern)) = 2
  /\ stored_count = 0

InsertedAfterEnsure(i) == \E j \in 1..(i - 1) : calls[j] = Call("ensure", TRUE)

\* C4: in both scripts an insert is issued only after ensure_question_table
\* has succeeded in the run; when it fails the run ends with no insert and
\* with the connection closed.
C4_InsertOnlyAfterSchema ==
  /\ \A i \in InsertCalls : InsertedAfterEnsure(i)
  /\ (\E j \in 1..Len(calls) : calls[j] = Call("ensure", FALSE))
       => /\ InsertCalls = {} /\ table = 0
          /\ pc = "aborted" /\ conn = "closed"
          /\ calls[Len(calls)] = Call("close", TRUE)

C4_Witness ==
  /\ script = "interactive" /\ pc = "done"
  /\ Cardinality(InsertCalls) = 2
  /\ calls[2] = Call("ensure", TRUE)

AllStrippedNonEmpty(cs) == \A i \in 1..Len(cs) : cs[i] # <<>> /\ Strip(cs[i]) = cs[i]

\* The multiple choice questions of the interactive script have at least 2
\* non-empty choices, those entered, in the order of entry.
ChoicesKept ==
  /\ question.class = "MultipleChoiceQuestion"
       => /\ Len(question.choices) >= 2
          /\ AllStrippedNonEmpty(question.choices)
          /\ pc = "store" => question.choices = choices
  /\ (pc = "store" /\ choice = <<"3">>) => question.class = "MultipleChoiceQuestion"

\* C6 (as stated): ending the entry with fewer than 2 choices fails with a
\* ValidationError; no multiple choice question with fewer than 2 non-empty
\* choices exists; with 2 or more the choices are kept in entry order.
C6_TooFewChoicesRaise ==
  script = "interactive" =>
    /\ out = "enter at least 2 choices" => raised = "ValidationError"
    /\ ChoicesKept

\* C6 (amended): ending the entry with fewer than 2 choices raises nothing:
\* the menu asks again and stays in the entry with no question built; no
\* multiple choice question with fewer than 2 non-empty choices exists; with
\* 2 or more the choices are kept in entry order.
C6_TooFewChoicesAskedAgain ==
  script = "interactive" =>
    /\ raised = "none"
    /\ out = "enter at least 2 choices"
         => pc = "choices" /\ Len(choices) < 2 /\ question = NoQuestion
    /\ ChoicesKept

C6_Witness ==
  /\ script = "interactive" /\ pc = "choices"
  /\ out = "enter at least 2 choices"
  /\ Len(choices) = 1

\* C9: store raises nothing; it returns False exactly when the database
\* reported an error on the insert and True otherwise, and after a failed
\* store the menu loop goes on with the connection open.
C9_StoreReturnsFailure ==
  script = "interactive" =>
    /\ raised = "none" /\ pc # "crashed"
    /\ out = "failed to store"
         => pc = "menu" /\ conn = "open" /\ calls[Len(calls)] = Call("insert", FALSE)
    /\ out = "stored successfully"
         => pc = "menu" /\ conn = "open" /\ calls[Len(calls)] = Call("insert", TRUE)
    /\ (calls # <<>> /\ calls[Len(calls)].op = "insert")
         => /\ conn = "open"
            /\ pc \in {"menu", "ask_text", "ask_subject", "choices", "store", "close"}
    /\ table = Cardinality({i \in InsertCalls : calls[i].ok})

C9_Witness ==
  /\ script = "interactive" /\ out = "stored successfully"
  /\ \E i, j \in InsertCalls : i < j /\ ~calls[i].ok /\ calls[j].ok

\* s.split(sep) for a text s
RECURSIVE Split(_, _)
Split(s, sep) ==
  IF \E i \in 1..Len(s) : s[i] = sep
    THEN LET i == CHOOSE k \in 1..Len(s) :
                    s[k] = sep /\ \A l \in 1..(k - 1) : s[l] # sep
         IN <<SubSeq(s, 1, i - 1)>> \o Split(SubSeq(s, i + 1, Len(s)), sep)
    ELSE <<s>>

\* C10: the answer options written for a question depend on its variant
\* and choices only: "True\nFalse" for a true/false question, the empty
\* string for a subjective one, the choices in order, one per line, for a
\* multiple choice one.
C10_AnswerOptionsPerVariant ==
  (script = "interactive" /\ executed # NoRow) =>
    /\ question.class = "TrueFalseQuestion"
         => executed.answer_options
              = <<"T", "r", "u", "e", "\n", "F", "a", "l", "s", "e">>
    /\ question.class = "SubjectiveQuestion" => executed.answer_options = <<>>
    /\ question.class = "MultipleChoiceQuestion"
         => Split(executed.answer_options, "\n") = question.choices

C10_Witness ==
  /\ script = "interactive" /\ executed # NoRow
  /\ question.class = "MultipleChoiceQuestion"
  /\ question.choices = <<<<"o">>, <<"a">>, <<"o">>>>
  /\ question.subject_name = Chemistry

\* The type tag of each variant, and the variant of each menu option.
TagOfClass(class) ==
  CASE class = "SubjectiveQuestion" -> "SUBJECTIVE"
    [] class = "TrueFalseQuestion" -> "TRUE_FALSE"
    [] class = "MultipleChoiceQuestion" -> "MULTIPLE_CHOICE"

ClassOfOption(option) ==
  CASE option = <<"1">> -> "SubjectiveQuestion"
    [] option = <<"2">> -> "TrueFalseQuestion"
    [] option = <<"3">> -> "MultipleChoiceQuestion"

JustStored ==
  /\ script = "interactive" /\ pc = "menu"
  /\ out \in {"stored successfully", "failed to store"}

\* C11: the type tag written for a question is the one tag of its variant,
\* SUBJECTIVE, TRUE_FALSE or MULTIPLE_CHOICE, whatever its content, and the
\* question built and stored for menu option 1, 2 or 3 is of the variant
\* of that option.
C11_TypeTagOfVariant ==
  script = "interactive" =>
    /\ executed # NoRow
         => /\ question # NoQuestion
            /\ executed.question_type = TagOfClass(question.class)
    /\ (pc = "store" \/ JustStored) => question.class = ClassOfOption(choice)
    /\ JustStored => executed.question_type = TagOfClass(ClassOfOption(choice))

C11_Witness ==
  /\ JustStored
  /\ choice = <<"2">>
  /\ executed.question_type = "TRUE_FALSE"
  /\ executed.question_text = <<"o">>

\* C12 (as stated): every question handed to the database, by the
\* interactive script and by the bulk script, has a non-empty question text.
C12_QuestionTextNonEmpty ==
  /\ script = "interactive"
       => (executed # NoRow => executed.question_text # <<>>)
  /\ script = "bulk"
       => \A i \in 1..Len(inserts) : inserts[i].row.question_text # <<>>

\* C12 (amended): every question built or handed to the database by the
\* interactive script has a non-empty, trimmed question text; the bulk
\* script hands over the trimmed question group, which may be empty.
C12_InteractiveTextNonEmpty ==
  /\ script = "interactive"
       => /\ executed # NoRow
               => /\ executed.question_text # <<>>
                  /\ Strip(executed.question_text) = executed.question_text
          /\ question # NoQuestion => question.question_text # <<>>
          /\ pc \in {"ask_subject", "choices", "store"} => question_text # <<>>
  /\ script = "bulk"
       => \A i \in 1..Len(inserts) :
            Strip(inserts[i].row.question_text) = inserts[i].row.question_text

C12_Witness ==
  /\ script = "interactive" /\ pc = "ask_text"
  /\ out = "input cannot be empty"
  /\ executed # NoRow /\ executed.question_text = <<"a">>

\* A text of whitespace only (the empty text included).
Blank(s) == \A i \in 1..Len(s) : s[i] \in Whitespace

\* The question matches with a blank question group in the chapters segs.
RECURSIVE BlankQuestions(_)
BlankQuestions(segs) ==
  IF segs = <<>> THEN 0
  ELSE LET ms == Matches(Head(segs).text, question_pattern)
       IN Cardinality({i \in 1..Len(ms) : Blank(ms[i].g1)})
          + BlankQuestions(Tail(segs))

EmptyTextInserts == {i \in 1..Len(inserts) : inserts[i].row.question_text = <<>>}

\* C13: in a bulk run a question match whose question group is empty or
\* whitespace only is not filtered out: one insert with an empty question
\* text is issued for each such match of the chapters gone through.
C13_EmptyQuestionStillInserted ==
  (InLoop /\ pc \in {"chapters", "done"})
  => /\ Cardinality(EmptyTextInserts) = BlankQuestions(segments)
     /\ Cardinality(InsertCalls) = Len(inserts)

C13_Witness ==
  /\ script = "bulk" /\ pc = "done"
  /\ Len(segments) = 1 /\ Len(inserts) = 2
  /\ Matches(segments[1].text, question_pattern)[1].g1 = <<" ">>
  /\ inserts[1].row.question_text = <<>>
  /\ inserts[2].row.question_text = <<>>

EnsureSucceeded == \E j \in 1..Len(calls) : calls[j] = Call("ensure", TRUE)

AllAttempted ==
  /\ pc = "done"
  /\ Len(segments) = Len(Matches(full_text, chapter_pattern))
  /\ InsertedRows = ExpectedRows(segments)

\* C14 (as stated): a bulk run ends on a schema error or by going through
\* all chapters and matches, so a run whose ensure_question_table succeeded
\* is never cut short.
C14_SchemaOkNeverAborts ==
  (script = "bulk" /\ EnsureSucceeded) => pc # "aborted"

\* What the two finditer loops of lines 173 and 182 still have to scan: the
\* characters left to the chapter iterator, then those left to the
\* question iterator of the current chapter; an empty match costs the
\* right to match empty again at the same place.
IterLeft(s, it) == 2 * (Len(s) - it.pos) + (IF it.must_advance THEN 0 ELSE 1)

Remaining ==
  IterLeft(full_text, chap_iter) * (2 * Len(full_text) + 4)
    + (IF pc = "questions" THEN 1 + IterLeft(chapter.text, q_iter) ELSE 0)

InLoopPc == script = "bulk" /\ pc \in {"chapters", "questions"}

\* C14 (amended): a bulk run whose ensure_question_table succeeded is cut
\* short only by a missing or unreadable PDF, with no insert and the
\* connection closed; once the text has been read the loops are left only
\* for the end of the run, every step inside them leaves strictly less to
\* scan (so they are left after finitely many steps), and at the end every
\* match of every chapter has been attempted.
C14_TextReadLeadsToDone ==
  /\ []((pc = "aborted" /\ EnsureSucceeded)
          => /\ out \in {"no pdf", "error opening pdf"}
             /\ inserts = <<>> /\ InsertCalls = {} /\ conn = "closed")
  /\ []((script = "bulk" /\ pc = "done") => AllAttempted)
  /\ [](InLoopPc => Remaining >= 0)
  /\ [][InLoopPc => /\ pc' \in {"chapters", "questions", "done"}
                    /\ pc' # "done" => Remaining' < Remaining]_vars

C14_Witness ==
  /\ script = "bulk" /\ AllAttempted
  /\ Len(segments) = 2 /\ Len(inserts) = 2
  /\ Len(ExpectedRows(<<segments[1]>>)) = 2
  /\ ~inserts[1].ok /\ ~inserts[2].ok

\* The lines of a formatted match; no line for the empty string.
FormattedLines(f) == IF f = <<>> THEN <<>> ELSE Split(f, Newline)

Formatted == 1..Len(formatted_matches)

\* C15 (as stated): a tuple match is formatted as its parts that are not
\* empty after trimming, one per line in capture order, so no line of it
\* is empty; a string match is formatted as its trimmed text.
C15_NoEmptyLineFromGroup ==
  script = "extract" =>
    \A i \in Formatted :
      IF matches[i].tuple
        THEN /\ FormattedLines(formatted_matches[i])
                  = SelectSeq(StripAll(matches[i].parts), Truthy)
             /\ \A k \in 1..Len(FormattedLines(formatted_matches[i])) :
                  FormattedLines(formatted_matches[i])[k] # <<>>
        ELSE formatted_matches[i] = Strip(matches[i].parts[1])

\* The parts of a tuple that findall returned non-empty.
MatchedParts(m) ==
  LET kept == {k \in 1..Len(m.parts) : m.parts[k] # <<>>}
      RECURSIVE Take(_)
      Take(k) == IF k > Len(m.parts) THEN <<>>
                 ELSE (IF k \in kept THEN <<m.parts[k]>> ELSE <<>>) \o Take(k + 1)
  IN Take(1)

\* C15 (amended): a tuple match is formatted as the trimmed texts of its
\* parts that are not empty before trimming, one per line in capture
\* order, so a part of whitespace only contributes an empty line; a
\* string match is formatted as its trimmed text.
C15_NonEmptyPartsTrimmed ==
  script = "extract" =>
    \A i \in Formatted :
      IF matches[i].tuple
        THEN IF MatchedParts(matches[i]) = <<>>
               THEN formatted_matches[i] = <<>>
               ELSE /\ Split(formatted_matches[i], Newline)
                         = StripAll(MatchedParts(matches[i]))
                    /\ (\E k \in 1..Len(matches[i].parts) :
                          /\ matches[i].parts[k] # <<>>
                          /\ Strip(matches[i].parts[k]) = <<>>)
                       <=> (\E k \in 1..Len(Split(formatted_matches[i], Newline)) :
                              Split(formatted_matches[i], Newline)[k] = <<>>)
        ELSE formatted_matches[i] = Strip(matches[i].parts[1])

C15_Witness ==
  /\ script = "extract" /\ pc = "done" /\ out = "output written"
  /\ page_text = <<"?", " ", "o", "?">>
  /\ Len(matches) = 2 /\ matches[1].tuple
  /\ matches[1].parts = << <<" ">>, <<"o">> >>
  /\ formatted_matches = << <<Newline, "o">>, <<>> >>
  /\ output_text = <<Newline, "o", Newline, Newline>>

\* A connection has been opened; the run has ended.
Opened == \E j \in 1..Len(calls) : calls[j] = Call("connect", TRUE)
Ended == pc \in {"aborted", "done", "crashed"}
Closes == {j \in 1..Len(calls) : calls[j].op = "close"}

\* C16: in the bulk and the interactive script a run that opened a
\* connection ends with that connection closed, whichever way it ends, the
\* close is the last database call of the run, and no insert is issued
\* once the connection is closed.
C16_ClosedOnEveryEnding ==
  script \in {"bulk", "interactive"} =>
    /\ (Ended /\ Opened) => /\ conn = "closed"
                             /\ Closes = {Len(calls)}
    /\ (Ended /\ ~Opened) => conn = "none" /\ Closes = {}
    /\ ~Ended => Closes = {} /\ conn # "closed"
    /\ \A j \in Closes : \A k \in (j + 1)..Len(calls) : calls[k].op # "insert"
    /\ InsertCalls # {} => Opened

C16_Witness ==
  /\ script = "bulk" /\ pc = "aborted" /\ out = "no pdf"
  /\ calls = <<Call("connect", TRUE), Call("ensure", TRUE), Call("close", TRUE)>>
  /\ conn = "closed"

\* The entries of the links in the given order whose fetch returned a
\* non-empty content.
RECURSIVE EntriesAlong(_)
EntriesAlong(order) ==
  IF order = <<>> THEN <<>>
  ELSE (IF futures[Head(order)].result # ""
          THEN <<[url |-> links[Head(order)], content |-> futures[Head(order)].result]>>
          ELSE <<>>)
       \o EntriesAlong(Tail(order))

IsPermutation(order, n) ==
  /\ Len(order) = n
  /\ \A i \in 1..n : \E k \in 1..n : order[k] = i

PositionIn(order, i) == CHOOSE k \in 1..Len(order) : order[k] = i

\* Each link is fetched once; the output is written once, after all
\* fetches, when the run gets that far.
FetchedOnceWrittenOnce ==
  /\ Len(futures) <= Len(links)
  /\ \A i \in 1..Len(futures) :
       fetch_calls[i] = (IF futures[i].state = "pending" THEN 0 ELSE 1)
  /\ Len(writes) = (IF pc = "done" THEN 1 ELSE 0)
  /\ pc = "done" => /\ Finished = 1..Len(links)
                    /\ IsPermutation(finished_order, Len(links))
                    /\ IsPermutation(yield_order, Len(links))

\* C17 (as stated): each link is fetched once, the output is written once
\* and after all fetches, and it holds the entries of the links whose
\* fetch returned a content, in the order in which the fetches completed.
C17_EntriesInCompletionOrder ==
  script = "fetch" =>
    /\ FetchedOnceWrittenOnce
    /\ pc = "done" => writes[1].text = OutputText(EntriesAlong(finished_order))

\* as_completed yields the futures that were finished when the loop was
\* entered first, in any order, and the others in the order they finished.
YieldOrderOfAsCompleted ==
  \A a, b \in 1..Len(yield_order) :
    (a < b /\ yield_order[a] \notin waiter.early)
    => /\ yield_order[b] \notin waiter.early
       /\ PositionIn(finished_order, yield_order[a])
            < PositionIn(finished_order, yield_order[b])

\* C17 (amended): each link is fetched once, output_path.write_text is
\* called once and after all fetches, and the text holds the entries of
\* the links whose fetch returned a content, in the order in which
\* as_completed yielded their futures: the fetches that had completed when
\* the loop was entered in any order, then the others in completion order.
C17_EntriesInYieldOrder ==
  script = "fetch" =>
    /\ FetchedOnceWrittenOnce
    /\ Yielded \subseteq Finished
    /\ YieldOrderOfAsCompleted
    /\ fetched_contents = EntriesAlong(yield_order)
    /\ pc = "done" => writes[1].text = OutputText(EntriesAlong(yield_order))

C17_Witness ==
  /\ script = "fetch" /\ pc = "done"
  /\ links = <<"u1", "u2", "u1">>
  /\ futures = <<Future("finished", "page"), Future("finished", "page"),
                 Future("finished", "")>>
  /\ finished_order = <<1, 2, 3>>
  /\ waiter.early = {1, 2}
  /\ yield_order = <<2, 1, 3>>
  /\ writes = <<[text |-> << <<"URL: ", "u2", "page">>, <<"URL: ", "u1", "page">> >>,
                 ok |-> TRUE]>>

====
